---- MODULE Spec2Model ----
(***************************************************************************)
(* LinearAllocator (Source/WebCore/platform/graphics/android/utils/        *)
(* LinearAllocator.cpp): a bump-pointer arena over a singly linked chain   *)
(* of malloc'ed pages.  Addresses and size_t values are 32-bit unsigned    *)
(* integers (the code casts `this` to unsigned), 0 is the null pointer.    *)
(***************************************************************************)
EXTENDS Integers, Sequences, FiniteSets, TLC

\* ------------------------------------------------------------------ bounds
\* operations (alloc / rewindTo / memusage calls) explored per arena
MaxOps == 4
\* pages one arena allocates in a run
MaxPages == 3
\* addresses the backing allocator may hand out
NSlots == 3
\* distance between two blocks of the backing allocator when the page size
\* is smaller than that (malloc of 0 bytes still returns distinct pointers)
MallocGrain == 16
\* arenas, each used by a thread of its own, in the runs with the usage
\* counter compiled in
NArenas == 2
\* pages each of these arenas allocates
MaxArenaPages == 1
\* width of size_t, unsigned and of a pointer.  The build is a 32-bit one
\* (Page::start casts `this` to unsigned); TLC's integers end at 2^31 - 1,
\* so the model keeps every rule of the unsigned arithmetic at a narrower
\* width, and the hints that overflow are stated relative to it.
WordBits == 24

\* ------------------------------------------------------- program constants
TARGET_PAGE_SIZE == 16384
MIN_OBJECT_COUNT == 4
\* sizeof(LinearAllocator::Page): one pointer, m_nextPage, on a 32-bit build
HeaderSize == 4

NULL == 0
W == 2 ^ WordBits
\* unsigned arithmetic at the machine width
Wrap(n) == ((n % W) + W) % W

\* sizing hints the constructor is called with; with the last two
\* pcount * averageAllocSize + sizeof(Page) exceeds the width of size_t
\* (on the 32-bit build: 1073741823 and 1073741825)
AvgSizes == {0, 1000, 5000, W \div 4 - 1, W \div 4 + 1}

VARIABLES
    averageAllocSize, \* the constructor's argument (kept for reference)
    m_pageSize,
    m_maxAllocSize,
    m_next,           \* the bump cursor
    m_currentPage,
    m_pages,          \* head of the chain
    m_nextPage,       \* Page::m_nextPage of every page constructed so far
    allocOrder,       \* the pages newPage() returned, in order
    released,         \* how often `delete p` ran on each page
    live,             \* regions returned by alloc and not retracted since
    tracking,         \* whether this run records `live`
    phase,            \* "live", "dtor" (inside the destructor), "dead"
    dtor_p,           \* the destructor's local p
    dtor_next,        \* the destructor's local next
    dtor_i,           \* the statement of the loop body it is at (0: the test)
    last,             \* the latest call: what it was given and returned
    before,           \* the call before that, when it was a rewindTo
    nops,
    \* the build with the usage counter (LOG_NDEBUG 0), several arenas:
    s_totalAllocations,
    s_mutex,          \* the thread holding s_mutex, 0 when it is free
    th_op,            \* per thread: "none", "newPage", "dtor", "dead"
    th_pc,            \* per thread: the statement it is at
    th_pageSize,      \* per thread: m_pageSize of its arena
    th_pages,         \* per thread: pages its arena has allocated
    th_left,          \* per thread: pages the destructor has yet to visit
    th_size,          \* per thread: the argument of _addAllocation
    th_sum            \* per thread: the value `+=` has computed

vars == <<averageAllocSize, m_pageSize, m_maxAllocSize, m_next, m_currentPage,
          m_pages, m_nextPage, allocOrder, released, live, tracking,
          phase, dtor_p, dtor_next, dtor_i, last, before, nops,
          s_totalAllocations, s_mutex, th_op, th_pc, th_pageSize, th_pages,
          th_left, th_size, th_sum>>

\* the state of the usage counter and of the threads using it
cvars == <<s_totalAllocations, s_mutex, th_op, th_pc, th_pageSize, th_pages,
           th_left, th_size, th_sum>>

Arenas == 1..NArenas

\* ------------------------------------------------------------- constructor
\* int usable_page_size = TARGET_PAGE_SIZE - sizeof(Page)
usable_page_size == TARGET_PAGE_SIZE - HeaderSize

\* int pcount = usable_page_size / averageAllocSize, raised to MIN_OBJECT_COUNT
pcount(avg) ==
    LET q == usable_page_size \div avg
    IN  IF q < MIN_OBJECT_COUNT THEN MIN_OBJECT_COUNT ELSE q

\* m_pageSize, computed in size_t
PageSizeFor(avg) ==
    IF avg # 0 THEN Wrap(pcount(avg) * avg + HeaderSize)
               ELSE TARGET_PAGE_SIZE

\* m_maxAllocSize = m_pageSize - sizeof(Page), computed in size_t
MaxAllocSizeFor(ps) == Wrap(ps - HeaderSize)

NoCall == [op |-> "none", arg |-> 0, ret |-> 0, grew |-> FALSE,
           honored |-> FALSE, preNext |-> 0, preCur |-> 0]

Constructed ==
    /\ averageAllocSize \in AvgSizes
    /\ m_pageSize = PageSizeFor(averageAllocSize)
    /\ m_maxAllocSize = MaxAllocSizeFor(m_pageSize)
    /\ m_next = NULL
    /\ m_currentPage = NULL
    /\ m_pages = NULL
    /\ m_nextPage = <<>>
    /\ allocOrder = <<>>
    /\ released = <<>>
    /\ live = {}
    /\ phase = "live"
    /\ dtor_p = NULL
    /\ dtor_next = NULL
    /\ dtor_i = 0
    /\ last = NoCall
    /\ before = NoCall
    /\ nops = 0

\* static size_t s_totalAllocations = 0; static android::Mutex s_mutex;
\* every arena constructed, no thread inside a call
CounterStart ==
    /\ s_totalAllocations = 0
    /\ s_mutex = 0
    /\ th_op = [t \in Arenas |-> "none"]
    /\ th_pc = [t \in Arenas |-> "out"]
    /\ th_pages = [t \in Arenas |-> 0]
    /\ th_left = [t \in Arenas |-> 0]
    /\ th_size = [t \in Arenas |-> 0]
    /\ th_sum = [t \in Arenas |-> 0]

\* the counter is compiled out (LOG_NDEBUG) in the single-arena runs
CounterOff == CounterStart /\ th_pageSize = [t \in Arenas |-> 0]

\* the regions handed out are recorded only in the runs that examine them
Init == Constructed /\ tracking = FALSE /\ CounterOff

InitLive == Constructed /\ tracking = TRUE /\ CounterOff

\* ------------------------------------------------------------ start / end
\* LinearAllocator::start(Page* p): ((char*)p) + sizeof(Page)
start(p) == Wrap(p + HeaderSize)

\* LinearAllocator::end(Page* p): ((char*)p) + m_pageSize
end(p) == Wrap(p + m_pageSize)

Pages == DOMAIN m_nextPage

\* --------------------------------------------------------------- newPage
\* malloc(m_pageSize): a block no live block overlaps.  Blocks are laid out
\* at multiples of the block size (of MallocGrain for tiny blocks), never at
\* address 0, and are handed out in any order.
Stride == IF m_pageSize < MallocGrain THEN MallocGrain ELSE m_pageSize

FreeBlocks == {b \in {k * Stride : k \in 1..NSlots} : b + m_pageSize <= W} \ Pages

\* (variant: the fresh page's link is set to the head of the chain)
LinkedPages_Ring(p) ==
    LET fresh == [q \in Pages \cup {p} |-> IF q = p THEN m_pages ELSE m_nextPage[q]]
    IN  IF m_currentPage # NULL
        THEN [fresh EXCEPT ![m_currentPage] = p]
        ELSE fresh

\* LinearAllocator::newPage() followed by the linking of ensureNext():
\* `new (buf) Page()` sets m_nextPage = 0, m_currentPage->setNext(p) when
\* there is a current page
LinkedPages(p) ==
    LET fresh == [q \in Pages \cup {p} |-> IF q = p THEN NULL ELSE m_nextPage[q]]
    IN  IF m_currentPage # NULL
        THEN [fresh EXCEPT ![m_currentPage] = p]
        ELSE fresh

\* (variant: the head follows the current page)
HeadAfter_Always(p) == p

\* if (!m_pages) m_pages = m_currentPage
HeadAfter(p) == IF m_pages = NULL THEN p ELSE m_pages

\* ------------------------------------------------------------ ensureNext
\* the early return of ensureNext:
\* m_next && ((char*)m_next + size) <= end(m_currentPage)
Fits(size) == m_next # NULL /\ Wrap(m_next + size) <= end(m_currentPage)

\* ---------------------------------------------------------------- memusage
RECURSIVE ChainWalk(_, _, _)
\* the walk `while (p) { ...; p = p->next(); }`: the pages visited, in order;
\* fuel stops a walk that would not end
ChainWalk(p, seen, fuel) ==
    IF p = NULL \/ fuel = 0 \/ p \notin Pages THEN seen
    ELSE ChainWalk(m_nextPage[p], Append(seen, p), fuel - 1)

Chain == ChainWalk(m_pages, <<>>, Cardinality(Pages) + 1)

RECURSIVE SumPages_Usable(_)
\* (variant: the walk adds the usable size of a page, not its size)
SumPages_Usable(n) ==
    IF n = 0 THEN 0 ELSE Wrap(SumPages_Usable(n - 1) + m_maxAllocSize)

RECURSIVE SumPages(_)
\* memusage += m_pageSize, once per page visited, in unsigned
SumPages(n) == IF n = 0 THEN 0 ELSE Wrap(SumPages(n - 1) + m_pageSize)

memusage == SumPages(Len(Chain))

RECURSIVE StepsToNull(_, _)
\* the number of times `p = p->next()` runs before `while (p)` sees null, for
\* the walks of memusage() and of the destructor; more than the number of
\* pages when the walk has not ended after `fuel` steps
StepsToNull(p, fuel) ==
    IF p = NULL THEN 0
    ELSE IF fuel = 0 \/ p \notin Pages THEN Cardinality(Pages) + 1
    ELSE 1 + StepsToNull(m_nextPage[p], fuel - 1)

\* -------------------------------------------------------------------- alloc
\* (variant: the request is compared with the page size)
TooLarge_PageSize(size) == size > m_pageSize

\* the guard of alloc: size > m_maxAllocSize
TooLarge(size) == size > m_maxAllocSize

\* request sizes tried in a state
Sizes == {0, 1, m_maxAllocSize \div 2, m_maxAllocSize - (m_maxAllocSize \div 2),
          m_maxAllocSize, m_maxAllocSize + 1, W - 1} \cap (0..(W - 1))

Call(op, arg, ret, grew, honored) ==
    [op |-> op, arg |-> arg, ret |-> ret, grew |-> grew, honored |-> honored,
     preNext |-> m_next, preCur |-> m_currentPage]

\* what is kept of the call before the latest: a rewindTo, or nothing
Earlier == IF last.op = "rewindTo" THEN last ELSE NoCall

\* (variant: the cursor is advanced one byte too far)
Carve_Pad(cursor, size, grew) ==
    /\ m_next' = Wrap(cursor + size + 1)
    /\ live' = IF tracking THEN live \cup {<<cursor, size>>} ELSE live
    /\ last' = Call("alloc", size, cursor, grew, FALSE)

\* void* ptr = m_next; m_next = ((char*)m_next) + size; return ptr;
Carve(cursor, size, grew) ==
    /\ m_next' = Wrap(cursor + size)
    /\ live' = IF tracking THEN live \cup {<<cursor, size>>} ELSE live
    /\ last' = Call("alloc", size, cursor, grew, FALSE)

Alloc(size) ==
    /\ phase = "live"
    /\ nops < MaxOps
    /\ nops' = nops + 1
    /\ before' = Earlier
    /\ IF TooLarge(size)
       THEN /\ last' = Call("alloc", size, NULL, FALSE, FALSE)
            /\ UNCHANGED <<m_next, m_currentPage, m_pages, m_nextPage,
                           allocOrder, released, live>>
       ELSE IF Fits(size)
       THEN /\ Carve(m_next, size, FALSE)
            /\ UNCHANGED <<m_currentPage, m_pages, m_nextPage, allocOrder, released>>
       ELSE /\ Len(allocOrder) < MaxPages
            /\ \E p \in FreeBlocks :
                  /\ m_nextPage' = LinkedPages(p)
                  /\ m_currentPage' = p
                  /\ m_pages' = HeadAfter(p)
                  /\ allocOrder' = Append(allocOrder, p)
                  /\ released' = [q \in Pages \cup {p} |->
                                     IF q = p THEN 0 ELSE released[q]]
                  /\ Carve(start(p), size, TRUE)
    /\ UNCHANGED <<cvars, averageAllocSize, tracking, m_pageSize, m_maxAllocSize, phase, dtor_p,
                   dtor_next, dtor_i>>

\* alloc(size) when ensureNext needs a page and malloc(m_pageSize) returns 0.
\* `new (buf) Page()` on a null buffer either yields null without running
\* the constructor (the placement operator new is declared non-throwing, so
\* the new-expression checks its result) or stores m_nextPage through the
\* null pointer, which ends the process.  In the first case ensureNext goes
\* on with p = 0: setNext(0) on the current page, m_currentPage = 0,
\* m_next = start(0), and alloc carves from there.
AllocNoMem(size) ==
    /\ phase = "live"
    /\ nops < MaxOps
    /\ ~TooLarge(size)
    /\ ~Fits(size)
    /\ nops' = nops + 1
    /\ before' = Earlier
    /\ \/ /\ phase' = "crashed"
          /\ last' = Call("allocNoMem", size, NULL, FALSE, FALSE)
          /\ UNCHANGED <<m_next, m_currentPage, m_pages, m_nextPage, live>>
       \/ /\ phase' = phase
          /\ m_nextPage' = IF m_currentPage # NULL
                           THEN [m_nextPage EXCEPT ![m_currentPage] = NULL]
                           ELSE m_nextPage
          /\ m_currentPage' = NULL
          /\ m_pages' = HeadAfter(NULL)
          /\ m_next' = Wrap(start(NULL) + size)
          /\ live' = IF tracking THEN live \cup {<<start(NULL), size>>} ELSE live
          /\ last' = Call("allocNoMem", size, start(NULL), FALSE, FALSE)
    /\ UNCHANGED <<cvars, averageAllocSize, tracking, m_pageSize, m_maxAllocSize,
                   allocOrder, released, dtor_p, dtor_next, dtor_i>>

\* ----------------------------------------------------------------- rewindTo
\* (variant: the first usable byte is excluded)
InCurrentPage_Open(ptr) == ptr > start(m_currentPage) /\ ptr < end(m_currentPage)

\* (variant: the end of the page is included)
InCurrentPage_Closed(ptr) == ptr >= start(m_currentPage) /\ ptr <= end(m_currentPage)

\* ptr >= start(m_currentPage) && ptr < end(m_currentPage)
InCurrentPage(ptr) == ptr >= start(m_currentPage) /\ ptr < end(m_currentPage)

\* With no current page start() and end() do arithmetic on a null pointer,
\* which is undefined: the comparison is either made on the resulting
\* numbers (sizeof(Page) and m_pageSize) or the assignment is dropped.
RewindOutcomes(ptr) ==
    IF m_currentPage = NULL THEN {InCurrentPage(ptr), FALSE}
                            ELSE {InCurrentPage(ptr)}

\* a region given out of the page the cursor is in
InCursorPage(g) == g[1] >= start(m_currentPage) /\ g[1] <= end(m_currentPage)

\* pointers rewindTo is called with
RewindTargets ==
    ( {NULL, HeaderSize, m_pageSize - 1, m_next, end(m_currentPage),
       end(m_currentPage) - 1}
      \cup {start(p) : p \in Pages}
      \cup {last.ret, last.preNext}
      \cup {g[1] : g \in live} ) \cap (0..(W - 1))

\* (variant: a pointer into any page is honored and that page becomes the
\* current one)
RewindTo_Across(ptr) ==
    /\ phase = "live"
    /\ nops < MaxOps
    /\ nops' = nops + 1
    /\ before' = Earlier
    /\ LET hit == {p \in Pages : ptr >= start(p) /\ ptr < end(p)}
       IN  /\ m_currentPage' = IF hit # {} THEN CHOOSE p \in hit : TRUE
                                           ELSE m_currentPage
           /\ m_next' = IF hit # {} THEN ptr ELSE m_next
           /\ last' = Call("rewindTo", ptr, 0, FALSE, hit # {})
    /\ UNCHANGED <<cvars, averageAllocSize, tracking, m_pageSize, m_maxAllocSize, m_pages,
                   m_nextPage, allocOrder, released, live, phase, dtor_p,
                   dtor_next, dtor_i>>

\* void LinearAllocator::rewindTo(void* ptr)
RewindTo(ptr) ==
    /\ phase = "live"
    /\ nops < MaxOps
    /\ nops' = nops + 1
    /\ before' = Earlier
    /\ \E honored \in RewindOutcomes(ptr) :
          /\ m_next' = IF honored THEN ptr ELSE m_next
          /\ live' = IF honored
                     THEN {g \in live : ~(InCursorPage(g) /\ ptr < g[1] + g[2])}
                     ELSE live
          /\ last' = Call("rewindTo", ptr, 0, FALSE, honored)
    /\ UNCHANGED <<cvars, averageAllocSize, tracking, m_pageSize, m_maxAllocSize, m_currentPage,
                   m_pages, m_nextPage, allocOrder, released, phase, dtor_p,
                   dtor_next, dtor_i>>

\* unsigned LinearAllocator::memusage()
Memusage ==
    /\ phase = "live"
    /\ nops < MaxOps
    /\ nops' = nops + 1
    /\ before' = Earlier
    /\ last' = Call("memusage", 0, memusage, FALSE, FALSE)
    /\ UNCHANGED <<cvars, averageAllocSize, tracking, m_pageSize, m_maxAllocSize, m_next,
                   m_currentPage, m_pages, m_nextPage, allocOrder, released,
                   live, phase, dtor_p, dtor_next, dtor_i>>

\* --------------------------------------------------------------- destructor
\* Page* p = m_pages;
DtorBegin ==
    /\ phase = "live"
    /\ phase' = "dtor"
    /\ dtor_p' = m_pages
    /\ dtor_next' = NULL
    /\ dtor_i' = 0
    /\ last' = [NoCall EXCEPT !.op = "dtor"]
    /\ before' = NoCall
    /\ UNCHANGED <<cvars, averageAllocSize, tracking, m_pageSize, m_maxAllocSize, m_next,
                   m_currentPage, m_pages, m_nextPage, allocOrder, released,
                   live, nops>>

\* (variant: the page is deleted before its link is read)
DtorBody_DeleteFirst == <<"delete", "next", "assign">>

\* the loop body, in order: Page* next = p->next(); delete p; p = next;
\* (RM_ALLOCATION expands to nothing under LOG_NDEBUG)
DtorBody == <<"next", "delete", "assign">>

\* the statement after statement i; after the last one, back to the test
DtorAfter(i) == IF i = Len(DtorBody) THEN 0 ELSE i + 1

DtorFrame == <<cvars, averageAllocSize, tracking, m_pageSize, m_maxAllocSize, m_next,
               m_currentPage, m_pages, m_nextPage, allocOrder, live, phase,
               last, before, nops>>

\* while (p): the loop is entered
DtorTest ==
    /\ phase = "dtor"
    /\ dtor_i = 0
    /\ dtor_p # NULL
    /\ dtor_i' = 1
    /\ UNCHANGED <<DtorFrame, released, dtor_p, dtor_next>>

\* (variant: the walk stops after the first page)
DtorNext_Stop(p) == NULL

\* the page the loop body moves on to: Page* next = p->next(); ... p = next;
DtorNext(p) == m_nextPage[p]

\* Page* next = p->next();
DtorReadNext ==
    /\ phase = "dtor"
    /\ dtor_i >= 1
    /\ DtorBody[dtor_i] = "next"
    /\ dtor_next' = DtorNext(dtor_p)
    /\ dtor_i' = DtorAfter(dtor_i)
    /\ UNCHANGED <<DtorFrame, released, dtor_p>>

\* delete p;
DtorDelete ==
    /\ phase = "dtor"
    /\ dtor_i >= 1
    /\ DtorBody[dtor_i] = "delete"
    /\ released' = [released EXCEPT ![dtor_p] = @ + 1]
    /\ dtor_i' = DtorAfter(dtor_i)
    /\ UNCHANGED <<DtorFrame, dtor_p, dtor_next>>

\* p = next;
DtorAssign ==
    /\ phase = "dtor"
    /\ dtor_i >= 1
    /\ DtorBody[dtor_i] = "assign"
    /\ dtor_p' = dtor_next
    /\ dtor_i' = DtorAfter(dtor_i)
    /\ UNCHANGED <<DtorFrame, released, dtor_next>>

\* the loop ends on p == 0
DtorEnd ==
    /\ phase = "dtor"
    /\ dtor_i = 0
    /\ dtor_p = NULL
    /\ phase' = "dead"
    /\ UNCHANGED <<cvars, averageAllocSize, tracking, m_pageSize, m_maxAllocSize, m_next,
                   m_currentPage, m_pages, m_nextPage, allocOrder, released,
                   live, dtor_p, dtor_next, dtor_i, last, before, nops>>

Next ==
    \/ \E size \in Sizes : Alloc(size)
    \/ \E ptr \in RewindTargets : RewindTo(ptr)
    \/ Memusage
    \/ DtorBegin
    \/ DtorTest
    \/ DtorReadNext
    \/ DtorDelete
    \/ DtorAssign
    \/ DtorEnd

Spec == Init /\ [][Next]_vars

SpecLive == InitLive /\ [][Next]_vars

\* the same arena with a backing allocator that may run out of memory
NextNoMem ==
    \/ Next
    \/ \E size \in Sizes : AllocNoMem(size)

SpecNoMem == Init /\ [][NextNoMem]_vars

\* ------------------------------------------------------- the usage counter
\* One thread per arena (an arena is not shared between threads); of the
\* arena only what the counter depends on is kept: its page size and how
\* many pages it has allocated, all of them in its chain.
avars == <<averageAllocSize, m_pageSize, m_maxAllocSize, m_next, m_currentPage,
           m_pages, m_nextPage, allocOrder, released, live, tracking,
           phase, dtor_p, dtor_next, dtor_i, last, before, nops>>

\* sizing hints of the arenas that share the counter; with the second the
\* page size is W - 4 and the total wraps when a second page is added
CounterAvgSizes == {0, W \div 4 - 2}

InitCounter ==
    /\ Constructed /\ averageAllocSize = 0 /\ tracking = FALSE
    /\ CounterStart
    /\ th_pageSize \in [Arenas -> {PageSizeFor(a) : a \in CounterAvgSizes}]

\* newPage(): ADD_ALLOCATION(m_pageSize) is its first statement
NewPageBegin(t) ==
    /\ th_op[t] = "none"
    /\ th_pages[t] < MaxArenaPages
    /\ th_op' = [th_op EXCEPT ![t] = "newPage"]
    /\ th_size' = [th_size EXCEPT ![t] = th_pageSize[t]]
    /\ th_pc' = [th_pc EXCEPT ![t] = "lock"]
    /\ UNCHANGED <<avars, s_totalAllocations, s_mutex, th_pageSize, th_pages,
                   th_left, th_sum>>

\* (variant: the mutex is never found taken)
MutexFree_Always == TRUE

\* android::Mutex::lock() returns only when no thread holds the mutex
MutexFree == s_mutex = 0

\* android::AutoMutex lock(s_mutex); and, with the mutex held, the read and
\* the addition of s_totalAllocations += size, in size_t
AddLock(t) ==
    /\ th_pc[t] = "lock"
    /\ MutexFree
    /\ s_mutex' = t
    /\ th_sum' = [th_sum EXCEPT ![t] = Wrap(s_totalAllocations + th_size[t])]
    /\ th_pc' = [th_pc EXCEPT ![t] = "store"]
    /\ UNCHANGED <<avars, s_totalAllocations, th_op, th_pageSize, th_pages,
                   th_left, th_size>>

\* the write of s_totalAllocations += size (_logUsageLocked only reads the
\* total), and the end of _addAllocation: ~AutoMutex unlocks
AddStore(t) ==
    /\ th_pc[t] = "store"
    /\ s_totalAllocations' = th_sum[t]
    /\ s_mutex' = 0
    /\ th_pc' = [th_pc EXCEPT ![t] = IF th_op[t] = "newPage" THEN "malloc"
                                                             ELSE "test"]
    /\ UNCHANGED <<avars, th_op, th_pageSize, th_pages, th_left, th_size,
                   th_sum>>

\* void* buf = malloc(m_pageSize); return new (buf) Page();
NewPageEnd(t) ==
    /\ th_pc[t] = "malloc"
    /\ th_pages' = [th_pages EXCEPT ![t] = @ + 1]
    /\ th_op' = [th_op EXCEPT ![t] = "none"]
    /\ th_pc' = [th_pc EXCEPT ![t] = "out"]
    /\ UNCHANGED <<avars, s_totalAllocations, s_mutex, th_pageSize, th_left,
                   th_size, th_sum>>

\* ~LinearAllocator(): Page* p = m_pages;
ArenaDtorBegin(t) ==
    /\ th_op[t] = "none"
    /\ th_op' = [th_op EXCEPT ![t] = "dtor"]
    /\ th_left' = [th_left EXCEPT ![t] = th_pages[t]]
    /\ th_pc' = [th_pc EXCEPT ![t] = "test"]
    /\ UNCHANGED <<avars, s_totalAllocations, s_mutex, th_pageSize, th_pages,
                   th_size, th_sum>>

\* while (p) { Page* next = p->next(); delete p; RM_ALLOCATION(m_pageSize);
\* with RM_ALLOCATION(size) being _addAllocation(-size), in size_t
ArenaDtorDelete(t) ==
    /\ th_op[t] = "dtor"
    /\ th_pc[t] = "test"
    /\ th_left[t] > 0
    /\ th_left' = [th_left EXCEPT ![t] = @ - 1]
    /\ th_size' = [th_size EXCEPT ![t] = Wrap(0 - th_pageSize[t])]
    /\ th_pc' = [th_pc EXCEPT ![t] = "lock"]
    /\ UNCHANGED <<avars, s_totalAllocations, s_mutex, th_op, th_pageSize,
                   th_pages, th_sum>>

\* the loop ends on p == 0; the arena is gone
ArenaDtorEnd(t) ==
    /\ th_op[t] = "dtor"
    /\ th_pc[t] = "test"
    /\ th_left[t] = 0
    /\ th_op' = [th_op EXCEPT ![t] = "dead"]
    /\ th_pc' = [th_pc EXCEPT ![t] = "out"]
    /\ UNCHANGED <<avars, s_totalAllocations, s_mutex, th_pageSize, th_pages,
                   th_left, th_size, th_sum>>

NextCounter ==
    \E t \in Arenas :
        \/ NewPageBegin(t)
        \/ AddLock(t)
        \/ AddStore(t)
        \/ NewPageEnd(t)
        \/ ArenaDtorBegin(t)
        \/ ArenaDtorDelete(t)
        \/ ArenaDtorEnd(t)

SpecCounter == InitCounter /\ [][NextCounter]_vars

\* ------------------------------------------------------------------ claims
\* the call just made (the step that counted it) was alloc / rewindTo
AllocStep == nops' # nops /\ last'.op = "alloc"
RewindStep == nops' # nops /\ last'.op = "rewindTo"
MemusageStep == nops' # nops /\ last'.op = "memusage"

\* two regions <<pointer, size>> share no byte
Disjoint(g, h) ==
    g[2] = 0 \/ h[2] = 0 \/ g[1] + g[2] <= h[1] \/ h[1] + h[2] <= g[1]

\* C1: every alloc(size) with 0 < size <= maxAllocSize returns a non-null
\* pointer whose region [p, p+size) is disjoint from every region an earlier
\* alloc returned that no honored rewindTo has retracted since.
C1_AllocDisjointFromLive ==
    [][(AllocStep /\ 0 < last'.arg /\ last'.arg <= m_maxAllocSize)
        => /\ last'.ret # NULL
           /\ \A g \in live : Disjoint(g, <<last'.ret, last'.arg>>)]_vars


\* C2: alloc(size) with size > maxAllocSize returns null and leaves the arena
\* as it was: no page is allocated, the chain, currentPage and the cursor
\* keep their values, and memusage() is the same before and after.
C2_OversizedAllocIsNoOp ==
    [][(AllocStep /\ last'.arg > m_maxAllocSize)
        => /\ last'.ret = NULL
           /\ UNCHANGED <<m_next, m_currentPage, m_pages, m_nextPage, allocOrder>>
           /\ memusage' = memusage]_vars

C2_Witness ==
    /\ last.op = "alloc" /\ last.arg > m_maxAllocSize /\ last.ret = NULL
    /\ Len(allocOrder) >= 1
    /\ m_next # end(m_currentPage)

\* C3: memusage() is pageSize times the number of pages allocated so far,
\* whatever alloc and rewindTo calls were made, and never decreases.
C3_MemusageCountsPages ==
    [][phase' = "live"
        => /\ memusage' = m_pageSize' * Len(allocOrder')
           /\ memusage' >= memusage
           /\ (last'.op = "memusage" => last'.ret = m_pageSize' * Len(allocOrder'))]_vars

C3_Witness ==
    /\ last.op = "memusage" /\ last.ret = 2 * m_pageSize /\ m_pageSize > 0
    /\ before.op = "rewindTo" /\ before.honored

\* C4: if p is in the current page's usable range and p + size is at most the
\* cursor before the call, rewindTo(p) followed at once by alloc(size)
\* returns p, allocates no page and leaves the cursor at p + size.
C4_RewindThenAllocReuses ==
    ( /\ phase = "live"
      /\ before.op = "rewindTo" /\ last.op = "alloc"
      /\ before.preCur # NULL
      /\ before.arg >= before.preCur + HeaderSize
      /\ before.arg < before.preCur + m_pageSize
      /\ before.arg + last.arg <= before.preNext )
    => /\ last.ret = before.arg
       /\ ~last.grew
       /\ m_currentPage = before.preCur
       /\ m_next = before.arg + last.arg

C4_Witness ==
    /\ phase = "live"
    /\ before.op = "rewindTo" /\ last.op = "alloc"
    /\ before.preCur # NULL
    /\ before.arg >= before.preCur + HeaderSize
    /\ before.arg < before.preCur + m_pageSize
    /\ before.arg + last.arg <= before.preNext
    /\ last.arg > 0
    /\ last.ret = before.arg

C6_RewindOnlyBackward ==
    [][RewindStep => m_next' <= m_next]_vars

\* C7: in every reachable state the cursor is null exactly when no page was
\* ever allocated, and otherwise start(currentPage) <= cursor <=
\* end(currentPage).
C7_CursorInCurrentPage ==
    phase = "live"
    => /\ (m_next = NULL) <=> (Len(allocOrder) = 0)
       /\ m_next # NULL
            => /\ m_currentPage # NULL
               /\ m_currentPage + HeaderSize <= m_next
               /\ m_next <= m_currentPage + m_pageSize

\* s is a prefix of t
IsPrefix(s, t) == Len(s) <= Len(t) /\ \A i \in 1..Len(s) : s[i] = t[i]

\* the chain is the pages allocated, in order, and ends at currentPage
ChainIsAllocOrder ==
    /\ Chain = allocOrder
    /\ Cardinality(Pages) = Len(allocOrder)
    /\ IF allocOrder = <<>>
       THEN m_pages = NULL /\ m_currentPage = NULL
       ELSE m_pages = allocOrder[1] /\ m_currentPage = allocOrder[Len(allocOrder)]
    /\ \A p \in Pages : (m_nextPage[p] = NULL) <=> (p = m_currentPage)

\* C8: the chain is an acyclic list from the head (the first page allocated)
\* holding every page allocated so far in allocation order, currentPage is
\* its last element and the only page whose link is null; before destruction
\* pages are only appended, never removed or reordered.
C8_ChainAppendOnly ==
    /\ [](phase = "live" => ChainIsAllocOrder)
    /\ [][phase' = "live" => IsPrefix(Chain, Chain')]_vars

C8_Witness ==
    /\ phase = "live" /\ Len(Chain) = 3
    /\ Chain[2] > Chain[3]
    /\ m_currentPage = Chain[3] /\ m_pages = Chain[1]

\* C9: when the destructor has completed every page the arena allocated has
\* been released exactly once (none leaked, none released twice), for a chain
\* of any length, the empty one included.
C9_EveryPageReleasedOnce ==
    /\ \A p \in Pages : released[p] <= 1
    /\ phase = "dead" => \A i \in 1..Len(allocOrder) : released[allocOrder[i]] = 1

C9_Witness ==
    /\ phase = "dead" /\ Len(allocOrder) = 3
    /\ \A p \in Pages : released[p] = 1

\* C10: pageSize is TARGET_PAGE_SIZE for averageAllocSize = 0, and otherwise
\* count * averageAllocSize + headerSize with count the larger of 4 and
\* floor((16384 - headerSize) / averageAllocSize); maxAllocSize is pageSize -
\* headerSize; no operation changes either.
C10_SizesFixedAtConstruction ==
    LET count == IF (TARGET_PAGE_SIZE - HeaderSize) \div averageAllocSize < 4
                 THEN 4
                 ELSE (TARGET_PAGE_SIZE - HeaderSize) \div averageAllocSize
    IN  /\ averageAllocSize = 0 => m_pageSize = TARGET_PAGE_SIZE
        /\ averageAllocSize > 0 => m_pageSize = count * averageAllocSize + HeaderSize
        /\ m_maxAllocSize = m_pageSize - HeaderSize


\* C11: for every positive averageAllocSize the arena holds at least the
\* minimum object count per page, maxAllocSize >= 4 * averageAllocSize, so
\* an allocation of averageAllocSize bytes is never refused as oversized.
C11_PageHoldsMinObjectCount ==
    averageAllocSize > 0
    => /\ m_maxAllocSize >= 4 * averageAllocSize
       /\ ~(averageAllocSize > m_maxAllocSize)

\* C12: two consecutive successful allocations alloc(a), alloc(b), the second
\* without page growth, return adjacent pointers: second = first + a (in
\* pointer arithmetic).
C12_ConsecutiveAllocsAdjacent ==
    [][( /\ last.op = "alloc" /\ last.arg <= m_maxAllocSize
         /\ AllocStep /\ last'.arg <= m_maxAllocSize /\ ~last'.grew )
        => last'.ret = Wrap(last.ret + last.arg)]_vars

\* Arena(0); alloc(1) twice: second = first + 1, one default page reserved
C12_Witness ==
    /\ averageAllocSize = 0 /\ nops = 2 /\ before.op = "none"
    /\ last.op = "alloc" /\ last.arg = 1 /\ ~last.grew
    /\ last.ret = start(m_currentPage) + 1
    /\ memusage = TARGET_PAGE_SIZE

\* C13: every successful alloc(size) returns a region [p, p+size) inside the
\* usable range [start, end) of the tail page at the time of return: at most
\* maxAllocSize bytes come out of one page and no allocation lands in an
\* earlier page or outside every page.
C13_RegionInsideTailPage ==
    (phase = "live" /\ last.op = "alloc" /\ last.arg <= m_maxAllocSize)
    => /\ m_currentPage # NULL
       /\ m_currentPage \in Pages
       /\ m_nextPage[m_currentPage] = NULL
       /\ m_currentPage + HeaderSize <= last.ret
       /\ last.ret + last.arg <= m_currentPage + m_pageSize
       /\ last.ret + last.arg - (m_currentPage + HeaderSize) <= m_maxAllocSize

\* C14: a successful alloc(size) allocates a page if and only if no page
\* exists yet or cursor + size exceeds end(currentPage); it allocates at most
\* one page, an exact fit is served without growth, and on growth the
\* pointer returned is the new page's usable start.
C14_GrowsExactlyWhenNeeded ==
    [][(AllocStep /\ last'.arg <= m_maxAllocSize)
        => /\ last'.grew <=> ( \/ allocOrder = <<>>
                               \/ m_next + last'.arg > m_currentPage + m_pageSize )
           /\ Len(allocOrder') = Len(allocOrder) + (IF last'.grew THEN 1 ELSE 0)
           /\ last'.grew => /\ m_currentPage' = allocOrder'[Len(allocOrder')]
                            /\ last'.ret = m_currentPage' + HeaderSize]_vars


\* C15: if the block allocation for a new page fails during alloc, no
\* partial page becomes reachable: the head, every link, currentPage and the
\* cursor are as before the call and no pointer is returned.
C15_FailedGrowthLeavesArena ==
    [][(nops' # nops /\ last'.op = "allocNoMem")
        => /\ UNCHANGED <<m_pages, m_nextPage, m_currentPage, m_next>>
           /\ last'.ret = NULL]_vars


\* C17: during destruction no page is dereferenced after its release: a
\* page's link is read before the page is freed, and the walk never comes
\* to a freed page again.
C17_NoUseAfterRelease ==
    ( /\ phase = "dtor"
      /\ dtor_p # NULL
      /\ (dtor_i = 0 \/ DtorBody[dtor_i] = "next") )
    => released[dtor_p] = 0

\* the second page's link is about to be read, the first page is freed
C17_Witness ==
    /\ phase = "dtor" /\ dtor_i >= 1 /\ DtorBody[dtor_i] = "next"
    /\ Len(allocOrder) >= 2
    /\ dtor_p = allocOrder[2]
    /\ released[allocOrder[1]] = 1 /\ released[dtor_p] = 0

\* C18: rewindTo, honored or ignored, changes nothing but the cursor: the
\* page chain, currentPage, pageSize and maxAllocSize stay and memusage()
\* gives the same value before and after; memusage() changes no arena state.
C18_RewindMovesOnlyCursor ==
    [][ /\ RewindStep
           => /\ UNCHANGED <<m_pages, m_nextPage, m_currentPage, m_pageSize,
                             m_maxAllocSize, allocOrder>>
              /\ memusage' = memusage
        /\ MemusageStep
           => UNCHANGED <<m_pages, m_nextPage, m_currentPage, m_pageSize,
                          m_maxAllocSize, allocOrder, m_next>> ]_vars

\* memusage() after an honored rewindTo on a two-page arena
C18_Witness ==
    /\ last.op = "memusage" /\ before.op = "rewindTo" /\ before.honored
    /\ before.arg # before.preNext
    /\ Len(allocOrder) = 2
    /\ last.ret = 2 * m_pageSize /\ m_pageSize = TARGET_PAGE_SIZE

\* C19: on an arena that has not allocated a page rewindTo(p) is a no-op for
\* every p (the cursor stays null), and the next alloc(size) with
\* size <= maxAllocSize allocates the first page and returns its usable start.
C19_RewindOnEmptyArenaIsNoOp ==
    [][ /\ (RewindStep /\ allocOrder = <<>>) => m_next' = NULL
        /\ (AllocStep /\ allocOrder = <<>> /\ last'.arg <= m_maxAllocSize)
           => /\ last'.grew
              /\ Len(allocOrder') = 1
              /\ last'.ret = allocOrder'[1] + HeaderSize ]_vars

\* C20: every operation terminates: the chain walk of memusage() and of the
\* destructor reaches the null link after exactly as many steps as pages
\* were allocated (the destructor: as many as are not yet released).
C20_ChainWalksEnd ==
    /\ phase = "live"
       => StepsToNull(m_pages, Cardinality(Pages) + 1) = Len(allocOrder)
    /\ (phase = "dtor" /\ dtor_i = 0)
       => StepsToNull(dtor_p, Cardinality(Pages) + 1)
            + Cardinality({p \in Pages : released[p] > 0}) = Len(allocOrder)

\* the destructor at its loop test, one page of three released
C20_Witness ==
    /\ phase = "dtor" /\ dtor_i = 0
    /\ Len(allocOrder) = 3
    /\ Cardinality({p \in Pages : released[p] > 0}) = 1
    /\ StepsToNull(dtor_p, Cardinality(Pages) + 1) = 2

RECURSIVE LiveTotal(_)
\* the sum, over the live arenas among 1..n, of page size times page count
LiveTotal(n) ==
    IF n = 0 THEN 0
    ELSE LiveTotal(n - 1)
         + (IF th_op[n] = "dead" THEN 0 ELSE th_pageSize[n] * th_pages[n])

\* C16: with the counter compiled in and arenas growing and being destroyed
\* on different threads, whenever no thread is inside newPage or a
\* destructor the total equals the sum over the live arenas of page size
\* times page count, modulo the width of size_t, and it is back to its
\* initial value once every arena is destroyed.
C16_CounterMatchesLiveArenas ==
    (\A t \in Arenas : th_op[t] \in {"none", "dead"})
    => /\ s_totalAllocations = Wrap(LiveTotal(NArenas))
       /\ (\A t \in Arenas : th_op[t] = "dead") => s_totalAllocations = 0

\* every arena destroyed, each having had a page, one of them of a size
\* with which the total wraps
C16_Witness ==
    /\ \A t \in Arenas : th_op[t] = "dead" /\ th_pages[t] > 0
    /\ \E t, u \in Arenas : /\ t # u
                            /\ th_pageSize[t] = W - 4
                            /\ th_pageSize[u] = TARGET_PAGE_SIZE
    /\ s_totalAllocations = 0

====
